---- MODULE Spec2Model ----
(***************************************************************************)
(* Model of kb-gui's Screen (src/main.rs): the packed-bit canvas, the text *)
(* layout that draws on it, the packetizer and the diffing sender.         *)
(*                                                                         *)
(* Bytes are integers 0..255.  Rust's 0-based data[i] is data[i + 1] here. *)
(* A panic (index out of bounds, arithmetic overflow under overflow        *)
(* checks, a failed unwrap) ends the process: status = "panicked".         *)
(***************************************************************************)
EXTENDS Integers, Sequences, FiniteSets

VARIABLES width, height, data, prev_packets, device, status, last, sent, nops

vars == <<width, height, data, prev_packets, device, status, last, sent, nops>>

---------------------------------------------------------------------------
(* Program constants *)

PAYLOAD_SIZE == 32

PayloadLen == PAYLOAD_SIZE - 2

\* The canvas main constructs: Screen::from_device(device, 62, 128)
DeviceWidth == 62

DeviceHeight == 128

\* The literal 128 render_centered centers against
CenterWidth == 128

---------------------------------------------------------------------------
(* Bounds of the model *)

\* Number of Screen calls explored in one run of the program
MaxOps == 3

\* Width in bits of usize / isize in the model (64 on the real targets; the
\* wrap-around of 128 - width_needed behaves the same at any width >= 10)
UsizeBits == 16

\* Canvas sizes from_device is called with: the device canvas, two canvases
\* whose width is a multiple of 8 (32 bytes: two packets, 30 bytes: one full
\* packet)
Dims == {<<DeviceWidth, DeviceHeight>>, <<16, 16>>, <<16, 15>>}

\* Coordinates handed to set_pixel: in range everywhere, in range on the
\* wider canvases only, in the last column group of the device canvas, and
\* negative
Pixels == {<<0, 1>>, <<9, 15>>, <<56, 96>>, <<-1, 1>>}

\* Sets of report indices the transport rejects during one send call
RejectSets == {{}, {0}, {1}}

\* Texts, font sizes and baseline handed to render_centered
Texts == {<<"i", ".">>, <<"W", "W">>}

FontSizes == {32}

RenderYs == {42}

---------------------------------------------------------------------------
(* Option<T> *)

None == [some |-> FALSE, val |-> <<>>]

Some(v) == [some |-> TRUE, val |-> v]

---------------------------------------------------------------------------
(* Machine integers *)

Pow2(n) == 2 ^ n

UsizeMod == Pow2(UsizeBits)

IsizeMax == Pow2(UsizeBits - 1) - 1

IsizeMin == 0 - Pow2(UsizeBits - 1)

InIsize(n) == IsizeMin <= n /\ n <= IsizeMax

\* Two's-complement wrap of an isize result (build without overflow checks)
WrapIsize(n) == ((n - IsizeMin) % UsizeMod) + IsizeMin

\* Rust's integer division truncates toward zero
TruncDiv(a, b) == IF a >= 0 THEN a \div b ELSE 0 - ((0 - a) \div b)

---------------------------------------------------------------------------
(* Bit helpers *)

\* mask = 0b10000000 >> bit_index
Mask(bit_index) == Pow2(7 - bit_index)

get_bit_at_index(byte, bit_index) == (byte \div Mask(bit_index)) % 2 = 1

set_bit_at_index(byte, bit_index, enabled) ==
    IF enabled
    THEN IF get_bit_at_index(byte, bit_index) THEN byte ELSE byte + Mask(bit_index)
    ELSE IF get_bit_at_index(byte, bit_index) THEN byte - Mask(bit_index) ELSE byte

---------------------------------------------------------------------------
(* Canvas *)

\* vec![b; (w * h) / 8]
VecOf(b, w, h) == [i \in 1..((w * h) \div 8) |-> b]

\* get_pixel: byte_index = (x + y * width) / 8, bit_index = 7 - x % 8.
\* Result [ok, val]; ok = FALSE is the index-out-of-bounds panic.
GetByteIndex(x, y, w) == (x + y * w) \div 8

get_pixel(d, w, x, y) ==
    LET byte_index == GetByteIndex(x, y, w)
        bit_index == 7 - (x % 8)
    IN  IF byte_index >= Len(d)
        THEN [ok |-> FALSE, val |-> FALSE]
        ELSE [ok |-> TRUE, val |-> get_bit_at_index(d[byte_index + 1], bit_index)]

InRange(x, y, w, h) == ~(x >= w \/ y >= h \/ x < 0 \/ y < 0)

\* set_pixel: target_byte = (x / 8) * height + y, target_bit = 7 - x % 8
TargetByte(x, y, h) == (x \div 8) * h + y

TargetBit(x) == 7 - (x % 8)

\* A canvas under mutation is [data, ok]; ok = FALSE once a panic unwound.
set_pixel(st, w, h, x, y, enabled) ==
    IF ~st.ok THEN st
    ELSE IF ~InRange(x, y, w, h) THEN st
    ELSE LET target_byte == TargetByte(x, y, h)
             target_bit == TargetBit(x)
         IN  IF target_byte >= Len(st.data)
             THEN [st EXCEPT !.ok = FALSE]
             ELSE [st EXCEPT !.data[target_byte + 1] =
                       set_bit_at_index(st.data[target_byte + 1], target_bit, enabled)]

---------------------------------------------------------------------------
(* Packets *)

DataPacket(index, payload) == [index |-> index, payload |-> payload]

\* vec![1, self.index] followed by the payload
to_bytes(p) == <<1, p.index>> \o p.payload

Min(a, b) == IF a < b THEN a ELSE b

\* itertools chunks(PAYLOAD_SIZE - 2): consecutive runs, the last one short
RECURSIVE Chunks(_)
Chunks(s) ==
    IF s = <<>> THEN <<>>
    ELSE <<SubSeq(s, 1, Min(PayloadLen, Len(s)))>>
         \o Chunks(SubSeq(s, PayloadLen + 1, Len(s)))

\* Mutant: the short final chunk is not padded
OutputArrayUnpadded(chunk) == chunk

\* output_array = [0; PAYLOAD_SIZE - 2], then output_array[index] = *byte
OutputArray(chunk) ==
    [j \in 1..PayloadLen |-> IF j <= Len(chunk) THEN chunk[j] ELSE 0]

\* index.try_into().unwrap() to u8 panics from the 257th packet on
CanPacketize(d) == Len(Chunks(d)) <= 256

to_packets(d) ==
    LET chunks == Chunks(d)
    IN  [i \in 1..Len(chunks) |-> DataPacket(i - 1, OutputArray(chunks[i]))]

\* prev_packets.contains(packet), with the derived PartialEq of DataPacket
Contains(packets, p) == \E i \in 1..Len(packets) : packets[i] = p

\* Mutant: nothing is filtered out
RetainAll(packets, prev) == packets

\* Mutant: the negation is lost, the unchanged packets are the ones kept
RetainUnchanged(packets, prev) == SelectSeq(packets, LAMBDA p : Contains(prev, p))

\* packets.retain(|packet| !prev_packets.contains(packet))
Retain(packets, prev) == SelectSeq(packets, LAMBDA p : ~Contains(prev, p))

---------------------------------------------------------------------------
(* Transport *)

\* HidAdapter::write: the transport accepts or rejects the report; which
\* reports it rejects during one send call is an input of that call.
HidWrite(bytes, rejects) == bytes[2] \notin rejects

\* DataPacket::send: Ok iff the write was accepted
packet_send(p, rejects) == HidWrite(to_bytes(p), rejects)

\* Mutant: the loop goes on after a rejected write
RECURSIVE SendLoopKeepGoing(_, _)
SendLoopKeepGoing(packets, rejects) ==
    IF packets = <<>> THEN [log |-> <<>>, result |-> "Ok"]
    ELSE LET ok == packet_send(Head(packets), rejects)
             entry == [bytes |-> to_bytes(Head(packets)), ok |-> ok]
             rest == SendLoopKeepGoing(Tail(packets), rejects)
         IN  [log |-> <<entry>> \o rest.log,
              result |-> IF ok THEN rest.result ELSE "Err"]

\* for packet in packets { packet.send(device)?; } Ok(())  --  the log of
\* the writes performed, each with its outcome, and what send returns
RECURSIVE SendLoop(_, _)
SendLoop(packets, rejects) ==
    IF packets = <<>> THEN [log |-> <<>>, result |-> "Ok"]
    ELSE LET ok == packet_send(Head(packets), rejects)
             entry == [bytes |-> to_bytes(Head(packets)), ok |-> ok]
         IN  IF ok
             THEN LET rest == SendLoop(Tail(packets), rejects)
                  IN  [log |-> <<entry>> \o rest.log, result |-> rest.result]
             ELSE [log |-> <<entry>>, result |-> "Err"]

\* What the display holds: for each report index, the most recent report the
\* transport accepted.
RECURSIVE DeviceAfter(_, _)
DeviceAfter(dev, log) ==
    IF log = <<>> THEN dev
    ELSE LET e == Head(log)
             next == IF e.ok
                     THEN {r \in dev : r[2] # e.bytes[2]} \cup {e.bytes}
                     ELSE dev
         IN  DeviceAfter(next, Tail(log))

---------------------------------------------------------------------------
(* Text layout *)

\* Font::rasterize(letter, size) of the font in use: metrics.width,
\* metrics.height and one intensity byte per pixel, row by row.  The font is
\* an input; this one has a narrow two-row glyph, the dot, and a wide glyph.
Rasterize(letter, size) ==
    CASE letter = "i" -> [width |-> 2, height |-> 2, bitmap |-> <<255, 0, 100, 200>>]
      [] letter = "." -> [width |-> 1, height |-> 1, bitmap |-> <<255>>]
      [] OTHER        -> [width |-> 70, height |-> 1, bitmap |-> [i \in 1..70 |-> 255]]

\* Rows of the bitmap in reverse order
RECURSIVE FlipRows(_, _, _)
FlipRows(bitmap, w, y) ==
    IF y = 0 THEN <<>>
    ELSE SubSeq(bitmap, (y - 1) * w + 1, y * w) \o FlipRows(bitmap, w, y - 1)

flip_vertical(bitmap, w, h) == FlipRows(bitmap, w, h)

\* (byte as f32 / 255.0).round() as i32 == 1
Enabled(byte) == 2 * byte >= 255

\* isize addition: panics under overflow checks, wraps without them
AddIsize(a, b, checks) ==
    IF InIsize(a + b) THEN [ok |-> TRUE, val |-> a + b]
    ELSE IF checks THEN [ok |-> FALSE, val |-> 0]
    ELSE [ok |-> TRUE, val |-> WrapIsize(a + b)]

\* The loop of draw_letter from bitmap position index on
RECURSIVE DrawPixels(_, _, _, _, _, _, _, _, _)
DrawPixels(st, w, h, flipped, m, x, y, index, checks) ==
    IF ~st.ok \/ index >= Len(flipped) THEN st
    ELSE LET row == AddIsize(x, index % m.width, checks)
             col == (y + m.height) - (index \div m.width)
             enabled == Enabled(flipped[index + 1])
         IN  IF ~row.ok THEN [st EXCEPT !.ok = FALSE]
             ELSE DrawPixels(set_pixel(st, w, h, col, row.val, enabled),
                             w, h, flipped, m, x, y, index + 1, checks)

draw_letter(st, w, h, letter, x, y, size, checks) ==
    LET m == Rasterize(letter, size)
        flipped == IF letter = "." THEN m.bitmap
                   ELSE flip_vertical(m.bitmap, m.width, m.height)
    IN  DrawPixels(st, w, h, flipped, m, x, y, 0, checks)

\* The loop of draw_text over the remaining letters, x_cursor advancing
RECURSIVE draw_text(_, _, _, _, _, _, _, _, _)
draw_text(st, w, h, text, x, y, size, spacing, checks) ==
    IF ~st.ok \/ text = <<>> THEN st
    ELSE LET letter == Head(text)
             lw == Rasterize(letter, size).width
             drawn == draw_letter(st, w, h, letter, x, y, size, checks)
             cursor == AddIsize(x, lw + spacing, checks)
         IN  IF ~drawn.ok THEN drawn
             ELSE IF ~cursor.ok THEN [drawn EXCEPT !.ok = FALSE]
             ELSE draw_text(drawn, w, h, Tail(text), cursor.val, y, size,
                            spacing, checks)

\* width_needed += metrics.width as usize + font_size as usize / 24
RECURSIVE WidthNeeded(_, _)
WidthNeeded(text, size) ==
    IF text = <<>> THEN 0
    ELSE Rasterize(Head(text), size).width + (size \div 24)
         + WidthNeeded(Tail(text), size)

\* ((128 - width_needed) / 2).try_into().unwrap(): the usize subtraction
\* panics under overflow checks and wraps without them; the conversion to
\* isize panics above isize::MAX.  [ok, val]
StartX(width_needed, checks) ==
    IF width_needed > CenterWidth /\ checks THEN [ok |-> FALSE, val |-> 0]
    ELSE LET half == ((CenterWidth - width_needed) % UsizeMod) \div 2
         IN  IF half > IsizeMax THEN [ok |-> FALSE, val |-> 0]
             ELSE [ok |-> TRUE, val |-> half]

\* render_centered on canvas d: [data, ok, total, startx]; startx.ok = FALSE
\* when the panic came before draw_text was called
render_centered(d, w, h, text, size, y, checks) ==
    LET total == WidthNeeded(text, size)
        sx == StartX(total, checks)
        st == IF sx.ok
              THEN draw_text([data |-> d, ok |-> TRUE], w, h, text, sx.val, y,
                             size, size \div 24, checks)
              ELSE [data |-> d, ok |-> FALSE]
    IN  [data |-> st.data, ok |-> st.ok, total |-> total, startx |-> sx]

---------------------------------------------------------------------------
(* The program *)

NoCall ==
    [op |-> "new", x |-> 0, y |-> 0, v |-> FALSE, before |-> <<>>,
     rejects |-> {}, log |-> <<>>, result |-> "Ok", base |-> None,
     baseline |-> None,
     total |-> 0, startx |-> [ok |-> TRUE, val |-> 0]]

\* Screen::from_device: zeroed data, no previous packets
Init ==
    /\ \E dim \in Dims : width = dim[1] /\ height = dim[2]
    /\ data = VecOf(0, width, height)
    /\ prev_packets = None
    /\ device = {}
    /\ status = "running"
    /\ last = NoCall
    /\ sent = None
    /\ nops = 0

Callable == status = "running" /\ nops < MaxOps

Clear ==
    /\ Callable
    /\ data' = VecOf(0, width, height)
    /\ last' = [NoCall EXCEPT !.op = "clear"]
    /\ nops' = nops + 1
    /\ UNCHANGED <<width, height, prev_packets, device, status, sent>>

FillAll ==
    /\ Callable
    /\ data' = VecOf(1, width, height)
    /\ last' = [NoCall EXCEPT !.op = "fill_all"]
    /\ nops' = nops + 1
    /\ UNCHANGED <<width, height, prev_packets, device, status, sent>>

SetPixel(x, y, enabled) ==
    /\ Callable
    /\ LET st == set_pixel([data |-> data, ok |-> TRUE], width, height, x, y, enabled)
       IN  /\ data' = st.data
           /\ status' = IF st.ok THEN "running" ELSE "panicked"
           /\ last' = [NoCall EXCEPT !.op = "set_pixel", !.x = x, !.y = y,
                                     !.v = enabled, !.before = data,
                                     !.result = IF st.ok THEN "Ok" ELSE "panic"]
    /\ nops' = nops + 1
    /\ UNCHANGED <<width, height, prev_packets, device, sent>>

RenderCentered(text, size, y, checks) ==
    /\ Callable
    /\ LET r == render_centered(data, width, height, text, size, y, checks)
       IN  /\ data' = r.data
           /\ status' = IF r.ok THEN "running" ELSE "panicked"
           /\ last' = [NoCall EXCEPT !.op = "render_centered", !.y = y,
                                     !.before = data, !.total = r.total,
                                     !.startx = r.startx,
                                     !.result = IF r.ok THEN "Ok" ELSE "panic"]
    /\ nops' = nops + 1
    /\ UNCHANGED <<width, height, prev_packets, device, sent>>

\* Screen::send, the transport rejecting the reports whose index is in rejects
Send(rejects) ==
    /\ Callable
    /\ IF ~CanPacketize(data)
       THEN /\ status' = "panicked"
            /\ last' = [NoCall EXCEPT !.op = "send", !.result = "panic"]
            /\ UNCHANGED <<prev_packets, device>>
       ELSE LET current == to_packets(data)
                packets == IF prev_packets.some
                           THEN Retain(current, prev_packets.val)
                           ELSE current
                out == SendLoop(packets, rejects)
            IN  /\ prev_packets' = Some(to_packets(data))
                /\ device' = DeviceAfter(device, out.log)
                /\ status' = "running"
                /\ last' = [NoCall EXCEPT !.op = "send", !.rejects = rejects,
                                          !.log = out.log,
                                          !.result = out.result, !.base = sent,
                                          !.baseline = prev_packets]
    /\ sent' = Some(data)
    /\ nops' = nops + 1
    /\ UNCHANGED <<width, height, data>>

Next ==
    \/ Clear
    \/ FillAll
    \/ \E p \in Pixels, enabled \in BOOLEAN : SetPixel(p[1], p[2], enabled)
    \/ \E text \in Texts, size \in FontSizes, y \in RenderYs, checks \in BOOLEAN :
           RenderCentered(text, size, y, checks)
    \/ \E rejects \in RejectSets : Send(rejects)

Spec == Init /\ [][Next]_vars

---------------------------------------------------------------------------
(* Vocabulary of the properties *)

CeilDiv(a, b) == (a + b - 1) \div b

\* Chunk k of canvas bytes d, zero-padded to the payload length
ExpectedChunk(d, k) ==
    [j \in 1..PayloadLen |->
        IF PayloadLen * k + j <= Len(d) THEN d[PayloadLen * k + j] ELSE 0]

\* The report that carries chunk k of d
ExpectedReport(d, k) == <<1, k>> \o ExpectedChunk(d, k)

DifferingBytes(a, b) == {i \in 1..Len(a) : a[i] # b[i]}

DifferingBits(a, b) ==
    {j \in 0..7 : get_bit_at_index(a, j) # get_bit_at_index(b, j)}

\* a and b are the same canvas but for one bit
OneBitApart(a, b) ==
    /\ Len(a) = Len(b)
    /\ Cardinality(DifferingBytes(a, b)) = 1
    /\ \A i \in DifferingBytes(a, b) : Cardinality(DifferingBits(a[i], b[i])) = 1

\* The 0-based index of the byte in which a and b differ
ChangedByte(a, b) == (CHOOSE i \in DifferingBytes(a, b) : TRUE) - 1

SendReturned == last.op = "send" /\ last.result # "panic"

\* The last call was a send, and the canvas is what it was at the send before
ResentUnmodified == SendReturned /\ last.base.some /\ last.base.val = data

\* The last call was a send, and the canvas is one pixel away from what it
\* was at the send before
ResentOnePixelApart ==
    SendReturned /\ last.base.some /\ OneBitApart(last.base.val, data)

---------------------------------------------------------------------------
(* Properties *)

\* C1: on a canvas whose width is a multiple of 8, get_pixel(x, y) returns v
\* right after set_pixel(x, y, v), for every in-range (x, y).
C1_BitRoundTrip ==
    (/\ last.op = "set_pixel"
     /\ width % 8 = 0
     /\ InRange(last.x, last.y, width, height))
    => get_pixel(data, width, last.x, last.y) = [ok |-> TRUE, val |-> last.v]

\* C2: a send of a canvas that is unmodified since the send before performs
\* no transport write.
C2_DiffIdempotence == ResentUnmodified => last.log = <<>>

C2_Witness ==
    /\ ResentUnmodified
    /\ last.log = <<>>
    /\ \E i \in 1..Len(data) : data[i] # 0

\* C3: a send of a canvas that differs in one bit of byte b from the canvas
\* of the send before writes exactly one report, the one of index b div 30.
C3_DiffMinimality ==
    ResentOnePixelApart
    => /\ Len(last.log) = 1
       /\ last.log[1].bytes[2] = ChangedByte(last.base.val, data) \div PayloadLen

C3_Witness ==
    /\ ResentOnePixelApart
    /\ Len(last.log) = 1
    /\ last.log[1].bytes[2] > 0
    /\ last.log[1].bytes[2] = ChangedByte(last.base.val, data) \div PayloadLen

\* C4: a send that a rejected write aborted leaves the retained previous
\* packet sequence as it was before the call.
C4_BaselineIsLastSent ==
    (last.op = "send" /\ last.result = "Err") => prev_packets = last.baseline

\* C5: to_packets yields ceil(L / 30) packets, packet i has index i and byte j
\* of its payload is data[30 i + j] when that is inside data and 0 otherwise;
\* the call leaves data as it was.
C5_Packetization ==
    LET ps == to_packets(data)
    IN  /\ Len(ps) = CeilDiv(Len(data), PayloadLen)
        /\ \A i \in 0..(Len(ps) - 1) :
              /\ ps[i + 1].index = i
              /\ Len(ps[i + 1].payload) = PayloadLen
              /\ \A j \in 0..(PayloadLen - 1) :
                    ps[i + 1].payload[j + 1] =
                        IF PayloadLen * i + j < Len(data)
                        THEN data[PayloadLen * i + j + 1] ELSE 0
        /\ SendReturned => prev_packets = Some(ps) /\ sent = Some(data)

C5_Witness ==
    /\ SendReturned
    /\ Len(data) = 32
    /\ data[32] # 0
    /\ Len(prev_packets.val) = 2
    /\ prev_packets.val[2].payload[2] = data[32]
    /\ prev_packets.val[2].payload[3] = 0

\* C6: the write the transport rejects is the last write of its send call,
\* and that call returns the error; the writes go out in ascending index
\* order and a call none of whose writes is rejected returns Ok.
C6_AbortOnFailure ==
    last.op = "send"
    => /\ \A i \in 1..Len(last.log) :
             /\ last.log[i].ok = (last.log[i].bytes[2] \notin last.rejects)
             /\ ~last.log[i].ok => i = Len(last.log)
             /\ i > 1 => last.log[i - 1].bytes[2] < last.log[i].bytes[2]
       /\ (last.result = "Err") = (\E i \in 1..Len(last.log) : ~last.log[i].ok)

C6_Witness ==
    /\ last.op = "send"
    /\ last.result = "Err"
    /\ ~last.baseline.some
    /\ Len(last.log) = 1
    /\ ~last.log[1].ok
    /\ Len(to_packets(data)) > 1

\* C7: render_centered of a text wider than 128 calls draw_text with the
\* negative x = (128 - totalWidth) / 2 and completes without error.
C7_CenteredOverflow ==
    (last.op = "render_centered" /\ last.total > CenterWidth)
    => /\ last.result = "Ok"
       /\ last.startx.ok
       /\ last.startx.val < 0
       /\ last.startx.val = TruncDiv(CenterWidth - last.total, 2)

\* C8: after fill_all every bit of every byte of data is 1, get_pixel is true
\* for every in-range pixel, and data has width * height / 8 bytes.
C8_FillTurnsEveryPixelOn ==
    last.op = "fill_all"
    => /\ Len(data) = (width * height) \div 8
       /\ \A i \in 1..Len(data) : data[i] = 255
       /\ \A x \in 0..(width - 1), y \in 0..(height - 1) :
             get_pixel(data, width, x, y) = [ok |-> TRUE, val |-> TRUE]

\* C9: when a send call returns Ok, for every packet index k of the canvas
\* the report the display last accepted with index k carries chunk k of data.
C9_DeviceMirrorsCanvas ==
    (last.op = "send" /\ last.result = "Ok")
    => \A k \in 0..(CeilDiv(Len(data), PayloadLen) - 1) :
          /\ \E r \in device : r[2] = k
          /\ \A r \in device : r[2] = k => r = ExpectedReport(data, k)

\* C10: on the 62 x 128 canvas set_pixel writes a byte inside data for every
\* in-range (x, y), and writes nothing for an out-of-range one.
C10_SetPixelInBounds ==
    (last.op = "set_pixel" /\ width = DeviceWidth /\ height = DeviceHeight)
    => IF InRange(last.x, last.y, width, height)
       THEN TargetByte(last.x, last.y, height) < Len(data) /\ last.result = "Ok"
       ELSE data = last.before /\ last.result = "Ok"

====
